---- MODULE Spec2Model ----
(***************************************************************************)
(* hdk-cli: the SHARC / BAR / SDAT archive commands (create, extract).     *)
(* A run of the model is a user session: create an archive from an input   *)
(* folder (or obtain one from elsewhere), extract it to an output folder,  *)
(* and repack the output folder into a second archive.                     *)
(***************************************************************************)
EXTENDS Integers, Sequences, FiniteSets, TLC

\* ------------------------------------------------------------------ bounds
MaxFiles == 2          \* files in the input folder
MaxIVs == 2            \* distinct values the random IV generator can return
MaxTreeFiles == 3      \* files in a folder tree given to collect_input_files

\* ------------------------------------------------------- 32-bit integers
\* i32 values are the integers I32Min..I32Max; a 32-bit pattern is 4 bytes
I32Max == 2147483647
I32Min == -I32Max - 1

\* the low 31 bits of the two's complement pattern of t
Low31(t) == IF t < 0 THEN (t + I32Max) + 1 ELSE t
SignByte(t) == IF t < 0 THEN 128 ELSE 0

\* i32::to_be_bytes / i32::from_be_bytes
to_be_bytes(t) ==
    LET v == Low31(t)
    IN  << SignByte(t) + v \div 16777216, (v \div 65536) % 256, (v \div 256) % 256, v % 256 >>

from_be_bytes(b) ==
    LET v == (b[1] % 128) * 16777216 + b[2] * 65536 + b[3] * 256 + b[4]
    IN  IF b[1] >= 128 THEN (v - I32Max) - 1 ELSE v

\* i32::to_le_bytes / i32::from_le_bytes
to_le_bytes(t) ==
    LET v == Low31(t)
    IN  << v % 256, (v \div 256) % 256, (v \div 65536) % 256, SignByte(t) + v \div 16777216 >>

from_le_bytes(b) ==
    LET v == (b[4] % 128) * 16777216 + b[3] * 65536 + b[2] * 256 + b[1]
    IN  IF b[4] >= 128 THEN (v - I32Max) - 1 ELSE v

\* the order of `x as u32`: the signed value with its sign bit flipped
UnsignedOrder(t) == IF t < 0 THEN (t + I32Max) + 1 ELSE (t - I32Max) - 1

\* `len as u32` for a length below 2^31
as_u32(n) == n

\* ------------------------------------------------------------ sequences
Range(s) == { s[i] : i \in DOMAIN s }

RECURSIVE SumSeq(_)
SumSeq(s) == IF s = << >> THEN 0 ELSE Head(s) + SumSeq(Tail(s))

\* all orderings of a finite set, as sequences without repetition
Orderings(S) ==
    { s \in [1..Cardinality(S) -> S] : \A i, j \in DOMAIN s : i # j => s[i] # s[j] }

\* ------------------------------------------------------------- magic.rs
MagicLE == << 225, 23, 239, 173 >>     \* E1 17 EF AD
MagicBE == << 173, 239, 23, 225 >>     \* AD EF 17 E1
BadMagic == << 0, 0, 0, 0 >>

\* magic_to_endianess: the third arm is panic!("Invalid magic value")
magic_to_endianess(buf) ==
    IF buf = MagicLE THEN "Little"
    ELSE IF buf = MagicBE THEN "Big"
    ELSE "PANIC"

\* hdk_archive::structs::ArchiveVersion, as the 16-bit number in the header
VersionBAR == 256
VersionSHARC == 512

\* ArchiveVersion::try_from(version).ok()
ArchiveVersion_try_from(version) ==
    IF version = VersionBAR THEN "BAR"
    ELSE IF version = VersionSHARC THEN "SHARC"
    ELSE "None"

\* archive_matcher: the first 4 bytes are the archive magic in either order
archive_matcher(buf) ==
    IF Len(buf) < 4 THEN FALSE
    ELSE SubSeq(buf, 1, 4) = MagicLE \/ SubSeq(buf, 1, 4) = MagicBE

\* extract_version: needs 8 bytes; the version is the upper half of the
\* 32-bit word after the magic, read in the byte order of the magic
extract_version(buf) ==
    IF Len(buf) < 8 THEN "None"
    ELSE IF SubSeq(buf, 1, 4) = MagicLE THEN ArchiveVersion_try_from(buf[7] + buf[8] * 256)
    ELSE IF SubSeq(buf, 1, 4) = MagicBE THEN ArchiveVersion_try_from(buf[5] * 256 + buf[6])
    ELSE "None"

\* sharc_matcher: archive_matcher and extract_version are both given the
\* 4-byte slice `magic`
sharc_matcher(buf) ==
    IF Len(buf) < 8 THEN FALSE
    ELSE LET magic == SubSeq(buf, 1, 4)
         IN  IF ~ archive_matcher(magic) THEN FALSE
             ELSE extract_version(magic) = "SHARC"

\* bar_matcher: as sharc_matcher, for BAR
bar_matcher(buf) ==
    IF Len(buf) < 8 THEN FALSE
    ELSE LET magic == SubSeq(buf, 1, 4)
         IN  IF ~ archive_matcher(magic) THEN FALSE
             ELSE extract_version(magic) = "BAR"

\* hdk_comp::lzma::SEGMENT_MAGIC ("segs")
SEGMENT_MAGIC == << 115, 101, 103, 115 >>

edge_lzma_matcher(buf) ==
    IF Len(buf) < 4 THEN FALSE ELSE SubSeq(buf, 1, 4) = SEGMENT_MAGIC

\* "NPD" and "SDATA" in ASCII
NPD == << 78, 80, 68 >>
SDATA == << 83, 68, 65, 84, 65 >>

\* sdat_matcher: "NPD" at the start and "SDATA" within the last 32 bytes
sdat_matcher(buf) ==
    IF Len(buf) < 36 THEN FALSE
    ELSE /\ SubSeq(buf, 1, 3) = NPD
         /\ \E i \in (Len(buf) - 31)..(Len(buf) - 4) : SubSeq(buf, i, i + 4) = SDATA

\* get_matcher().get(buf): the matchers in the order they were added, the
\* first that matches names the type
get_matcher(buf) ==
    IF sharc_matcher(buf) THEN "hdk-sharc"
    ELSE IF bar_matcher(buf) THEN "hdk-bar"
    ELSE IF archive_matcher(buf) THEN "hdk-archive"
    ELSE IF edge_lzma_matcher(buf) THEN "hdk-edge-lzma"
    ELSE IF sdat_matcher(buf) THEN "hdk-sdat"
    ELSE "none"

\* --------------------------------------------------------- path strings
\* A path is a sequence of one-character strings.
HexUpper == << "0","1","2","3","4","5","6","7","8","9","A","B","C","D","E","F" >>
HexLower == << "0","1","2","3","4","5","6","7","8","9","a","b","c","d","e","f" >>
UpperChars == << "A","B","C","D","E","F","G","H","I","J","K","L","M",
                 "N","O","P","Q","R","S","T","U","V","W","X","Y","Z" >>
LowerChars == << "a","b","c","d","e","f","g","h","i","j","k","l","m",
                 "n","o","p","q","r","s","t","u","v","w","x","y","z" >>
Digits == << "0","1","2","3","4","5","6","7","8","9" >>

\* char::is_ascii_hexdigit
is_ascii_hexdigit(c) == c \in Range(HexUpper) \cup Range(HexLower)

HexVal(c) == (CHOOSE i \in 1..16 : HexUpper[i] = c \/ HexLower[i] = c) - 1

\* hex::decode on an 8-digit string: 4 bytes
hex_decode(s) == [ i \in 1..4 |-> HexVal(s[2 * i - 1]) * 16 + HexVal(s[2 * i]) ]

\* str::to_lowercase, one character
LowerChar(c) ==
    IF c \in Range(UpperChars)
    THEN LowerChars[CHOOSE i \in 1..26 : UpperChars[i] = c]
    ELSE c

\* variant: lower-cased only, the separators kept
clean_path_lower(s) ==
    [ i \in DOMAIN s |-> LowerChar(s[i]) ]

\* raw_path_str.to_lowercase().replace("\\", "/")
clean_path(s) ==
    [ i \in DOMAIN s |-> IF s[i] = "\\" THEN "/" ELSE LowerChar(s[i]) ]

\* ASCII code of a character
CharCode(c) ==
    IF c \in Range(Digits) THEN 47 + (CHOOSE i \in 1..10 : Digits[i] = c)
    ELSE IF c \in Range(UpperChars) THEN 64 + (CHOOSE i \in 1..26 : UpperChars[i] = c)
    ELSE IF c \in Range(LowerChars) THEN 96 + (CHOOSE i \in 1..26 : LowerChars[i] = c)
    ELSE IF c = "." THEN 46
    ELSE IF c = "/" THEN 47
    ELSE IF c = "\\" THEN 92
    ELSE 95

\* hdk_secure::hash::AfsHash::new_from_str: a deterministic string hash
\* (the library's mixing constants are not part of this repository)
RECURSIVE AfsHashAcc(_, _)
AfsHashAcc(s, acc) ==
    IF s = << >> THEN acc
    ELSE AfsHashAcc(Tail(s), (acc * 37 + CharCode(Head(s))) % 65536)

AfsHash_new_from_str(s) == (AfsHashAcc(s, 0) - 32768) * 65521

\* Display of an AfsHash: eight upper-case hex digits of the 32-bit pattern
AfsHash_to_string(h) ==
    LET b == to_be_bytes(h)
    IN  [ i \in 1..8 |-> IF i % 2 = 1 THEN HexUpper[(b[(i + 1) \div 2] \div 16) + 1]
                                     ELSE HexUpper[(b[i \div 2] % 16) + 1] ]

TimeName == << ".", "t", "i", "m", "e" >>
BinExt == << ".", "b", "i", "n" >>

\* Path::file_name: the component after the last separator
RECURSIVE file_name(_)
file_name(p) ==
    IF \E i \in DOMAIN p : p[i] = "/"
    THEN file_name(Tail(p))
    ELSE p

\* variant: the literal digits taken as a little-endian value
NameHashOf_le(raw_path_str) ==
    IF Len(raw_path_str) = 8 /\ \A i \in DOMAIN raw_path_str : is_ascii_hexdigit(raw_path_str[i])
    THEN from_le_bytes(hex_decode(raw_path_str))
    ELSE AfsHash_new_from_str(clean_path(raw_path_str))

\* the name_hash that collect_input_files gives a relative path
NameHashOf(raw_path_str) ==
    IF Len(raw_path_str) = 8 /\ \A i \in DOMAIN raw_path_str : is_ascii_hexdigit(raw_path_str[i])
    THEN from_be_bytes(hex_decode(raw_path_str))
    ELSE AfsHash_new_from_str(clean_path(raw_path_str))

\* variant: only a `.time` at the root of the folder is skipped
collect_input_files_root_marker(dir, order) ==
    LET kept == SelectSeq(order, LAMBDA p : p # TimeName)
    IN  [ i \in DOMAIN kept |-> [ path |-> kept[i], name_hash |-> NameHashOf(kept[i]) ] ]

\* collect_input_files on a folder, for one walk order of its files:
\* every file but `.time`, as (path, name_hash)
collect_input_files(dir, order) ==
    LET kept == SelectSeq(order, LAMBDA p : file_name(p) # TimeName)
    IN  [ i \in DOMAIN kept |-> [ path |-> kept[i], name_hash |-> NameHashOf(kept[i]) ] ]

\* ----------------------------------------------------------------- sort
\* slice::sort_by_key(|f| f.name_hash.0): stable, keyed on the signed i32
RECURSIVE InsertByKey(_, _)
InsertByKey(sorted, x) ==
    IF sorted = << >> THEN << x >>
    ELSE IF x.k < Head(sorted).k THEN << x >> \o sorted
    ELSE << Head(sorted) >> \o InsertByKey(Tail(sorted), x)

RECURSIVE SortKeyed(_, _)
SortKeyed(s, acc) ==
    IF s = << >> THEN acc
    ELSE SortKeyed(Tail(s), InsertByKey(acc, Head(s)))

sort_by_key_unsigned(s) ==
    LET keyed == [ i \in DOMAIN s |-> [ k |-> UnsignedOrder(s[i].name_hash), v |-> s[i] ] ]
        sorted == SortKeyed(keyed, << >>)
    IN  [ i \in DOMAIN sorted |-> sorted[i].v ]

sort_by_key(s) ==
    LET keyed == [ i \in DOMAIN s |-> [ k |-> s[i].name_hash, v |-> s[i] ] ]
        sorted == SortKeyed(keyed, << >>)
    IN  [ i \in DOMAIN sorted |-> sorted[i].v ]

\* ------------------------------------------------------------- keys.rs
\* key material, one number per key
SHARC_DEFAULT_KEY == 11
SHARC_FILES_KEY == 23
SHARC_SDAT_KEY == 37
BAR_DEFAULT_KEY == 53
BAR_SIGNATURE_KEY == 71
BLOWFISH_DEFAULT_KEY == 89

\* ------------------------------------- entry codec (hdk_archive, hdk_comp)
CodecError == [ ok |-> FALSE, err |-> "CodecError" ]
Decoded(bytes) == [ ok |-> TRUE, data |-> bytes ]

\* bitwise XOR of two bytes
RECURSIVE XorBits(_, _, _)
XorBits(a, b, n) ==
    IF n = 0 THEN 0
    ELSE ((a + b) % 2) + 2 * XorBits(a \div 2, b \div 2, n - 1)

Xor8(a, b) == XorBits(a, b, 8)

\* keystream byte i of the stream cipher for (key, iv)
KeyStream(key, iv, i) == (key * 5 + SumSeq(iv) * 3 + 17 * i) % 256

\* stream cipher: XOR against the keystream; encrypt and decrypt coincide
cipher(key, iv, bytes) ==
    [ i \in DOMAIN bytes |-> Xor8(bytes[i], KeyStream(key, iv, i)) ]

\* segmented compressor: a one-byte length header, then the bytes
compress(bytes) == << Len(bytes) % 256 >> \o bytes

\* decompress checks the segment header and the expected length
decompress(c, expected_len) ==
    IF Len(c) >= 1 /\ c[1] = Len(c) - 1 /\ Len(c) - 1 = expected_len
    THEN Decoded(Tail(c))
    ELSE CodecError

\* EntryCodec.encode for CompressionType::Encrypted: compress, then encrypt
encode(key, iv, plaintext) == cipher(key, iv, compress(plaintext))

\* EntryCodec.decode: decrypt, then decompress to uncompressed_size bytes
decode(key, iv, ciphertext, uncompressed_size) ==
    decompress(cipher(key, iv, ciphertext), uncompressed_size)

\* the values rand::rng().fill(&mut iv) can produce
IVs == { [ i \in 1..8 |-> k ] : k \in 1..MaxIVs }
ZeroIV == [ i \in 1..8 |-> 0 ]

\* ------------------------------------------ Blowfish modes (hdk_secure)
\* BlowfishEcb: a keyed permutation of 8-byte blocks; BlowfishEcbDec is its
\* inverse
BlowfishEcb(key, block) == [ i \in 1..8 |-> (block[(i % 8) + 1] + key) % 256 ]
BlowfishEcbDec(key, block) == [ i \in 1..8 |-> (block[((i + 6) % 8) + 1] - key) % 256 ]

\* the 8-byte counter after n increments, as a big-endian number with carry
RECURSIVE CounterAdd(_, _)
CounterAdd(iv, n) ==
    IF n = 0 THEN iv
    ELSE LET k == IF \E i \in 1..8 : iv[i] # 255
                  THEN CHOOSE i \in 1..8 : iv[i] # 255 /\ \A j \in (i + 1)..8 : iv[j] = 255
                  ELSE 0
         IN  CounterAdd([ i \in 1..8 |-> IF i < k THEN iv[i]
                                          ELSE IF i = k THEN iv[i] + 1 ELSE 0 ], n - 1)

\* BlowfishPS3 in CTR mode: keystream block j is ECB(IV + j), the first is ECB(IV)
BlowfishPS3(key, iv, data) ==
    [ i \in DOMAIN data |->
        Xor8(data[i], BlowfishEcb(key, CounterAdd(iv, (i - 1) \div 8))[((i - 1) % 8) + 1]) ]

\* --------------------------------------------- Builder (hdk_archive)
\* SharcBuilder::new / BarBuilder::new; the timestamp defaults to the
\* current time
Builder_new(version, key, key2, now) ==
    [ version |-> version, key |-> key, key2 |-> key2, protected |-> FALSE,
      timestamp |-> now, entries |-> << >> ]

with_timestamp(b, t) == [ b EXCEPT !.timestamp = t ]
with_flags(b, protected) == [ b EXCEPT !.protected = protected ]

\* the key the entries of an archive are encrypted with
EntryKey(version, key, key2) == IF version = "SHARC" THEN key2 ELSE key

\* SharcBuilder::compress_data(&self, data, Encrypted, iv)
compress_data(b, data, iv) == encode(EntryKey(b.version, b.key, b.key2), iv, data)

\* add_compressed_entry: append an already encoded entry
add_compressed_entry(b, name_hash, compressed, uncompressed_size, iv) ==
    [ b EXCEPT !.entries = Append(@,
        [ name_hash |-> name_hash, data |-> compressed,
          uncompressed_size |-> uncompressed_size,
          compression_type |-> "Encrypted", iv |-> iv ]) ]

\* add_entry: encode with the given iv, then append
add_entry(b, name_hash, data, iv) ==
    add_compressed_entry(b, name_hash, compress_data(b, data, iv),
                         as_u32(Len(data)), iv)

\* an integer field written in the archive's byte order
WriteI32(endian, v) == IF endian = "Little" THEN to_le_bytes(v) ELSE to_be_bytes(v)
ReadI32(endian, bytes) == IF endian = "Little" THEN from_le_bytes(bytes) ELSE from_be_bytes(bytes)

RECURSIVE Concat(_)
Concat(ss) == IF ss = << >> THEN << >> ELSE Head(ss) \o Concat(Tail(ss))

\* offset of entry i in the data blob: the sizes of the entries before it
RECURSIVE OffsetOf(_, _)
OffsetOf(entries, i) ==
    IF i <= 1 THEN 0 ELSE OffsetOf(entries, i - 1) + Len(entries[i - 1].data)

\* the header key of a SHARC archive carries the files key, wrapped
WrapKey(key, files_key) == (files_key + key) % 256
UnwrapKey(key, wrapped) == (wrapped - key) % 256

\* the builder's own ordering of its entries: ascending signed name_hash
Builder_sort(entries) ==
    LET keyed == [ i \in DOMAIN entries |-> [ k |-> entries[i].name_hash, v |-> entries[i] ] ]
        sorted == SortKeyed(keyed, << >>)
    IN  [ i \in DOMAIN sorted |-> sorted[i].v ]

\* build(sink, byte_order): sort by signed name_hash, lay out, serialise
build(b, endian) ==
    LET es == Builder_sort(b.entries)
    IN  [ magic |-> IF endian = "Little" THEN MagicLE ELSE MagicBE,
          version |-> b.version,
          protected |-> b.protected,
          timestamp |-> WriteI32(endian, b.timestamp),
          files_key |-> IF b.version = "SHARC" THEN WrapKey(b.key, b.key2) ELSE 0,
          table |-> [ i \in DOMAIN es |->
                      [ name_hash |-> WriteI32(endian, es[i].name_hash),
                        location |-> OffsetOf(es, i),
                        compressed_size |-> Len(es[i].data),
                        uncompressed_size |-> es[i].uncompressed_size,
                        compression_type |-> es[i].compression_type,
                        iv |-> es[i].iv ] ],
          blob |-> Concat([ i \in DOMAIN es |-> es[i].data ]) ]

\* ---------------------------------------------- Reader (hdk_archive)
ReadError == [ ok |-> FALSE, err |-> "ReadError" ]

\* SharcArchive::read_{le,be}_args / BarArchive::read_{le,be}_args: parse
\* header and table in the given byte order; the expected format and the
\* extent of the last entry are checked
Archive_read(version, endian, bytes, key) ==
    IF bytes.version # version THEN ReadError
    ELSE IF \E i \in DOMAIN bytes.table :
              bytes.table[i].location + bytes.table[i].compressed_size > Len(bytes.blob)
    THEN ReadError
    ELSE [ ok |-> TRUE,
           archive_data |-> [ timestamp |-> ReadI32(endian, bytes.timestamp),
                              protected |-> bytes.protected ],
           entry_key |-> IF version = "SHARC" THEN UnwrapKey(key, bytes.files_key) ELSE key,
           entries |-> [ i \in DOMAIN bytes.table |->
                         [ name_hash |-> ReadI32(endian, bytes.table[i].name_hash),
                           location |-> bytes.table[i].location,
                           compressed_size |-> bytes.table[i].compressed_size,
                           uncompressed_size |-> bytes.table[i].uncompressed_size,
                           compression_type |-> bytes.table[i].compression_type,
                           iv |-> bytes.table[i].iv ] ] ]

\* the bytes a cursor at position pos reads: n bytes of the data blob
ReadAt(bytes, pos, n) == [ i \in 1..n |-> bytes.blob[pos + i] ]

\* entry_data after the seek: read compressed_size bytes at the cursor and decode
entry_data_read(archive, bytes, pos, entry) ==
    IF pos + entry.compressed_size > Len(bytes.blob) THEN CodecError
    ELSE decode(archive.entry_key, entry.iv,
                ReadAt(bytes, pos, entry.compressed_size), entry.uncompressed_size)


\* entry_data through a reader of its own: seek to the entry, read, decode
entry_data(archive, bytes, entry) ==
    entry_data_read(archive, bytes, entry.location, entry)

\* -------------------------------------------- SDAT wrapper (hdk_sdat)
\* SdatWriter::write_to_vec / SdatReader::decrypt_to_vec
sdat_wrap(bytes) == [ npd |-> "NPD", payload |-> bytes ]
sdat_unwrap(f) == f.payload

\* ----------------------------------------------------------- the state
Cmds == { "sharc", "bar", "sdat" }
Endians == { "Little", "Big" }

\* the values of the archive_type argument of Sdat::create
ArchiveType == { "Sharc", "Bar" }

\* candidate file names of the input folder and their possible contents
CandidatePaths ==
    { << "F","F","F","F","F","F","9","C" >>,      \* literal -100
      << "0","0","0","0","0","0","0","0" >>,      \* literal 0
      << "c",".","b","i","n" >>,
      << "C",".","B","I","N" >> }                 \* normalises to c.bin

\* the contents of a candidate file
ContentOf(p) ==
    IF p = << "c",".","b","i","n" >> THEN << 9, 8, 7 >>
    ELSE IF p = << "C",".","B","I","N" >> THEN << 7 >>
    ELSE IF p[1] = "F" THEN << 1, 2 >>
    ELSE << 0 >>

\* header timestamps, and the value of the system clock
TimeVals == { -2, 16909060 }
Clock == 1700000000

\* contents a `.time` file of the input folder can have
TimeMarkers == { to_be_bytes(t) : t \in TimeVals } \cup { << 1, 2, 3 >> }

None == [ st |-> "none" ]
NoFile == [ st |-> "absent" ]
EmptyFile == [ st |-> "empty" ]
ArchiveFile(wrapped, bytes) ==
    [ st |-> "file", bytes |-> IF wrapped THEN sdat_wrap(bytes) ELSE bytes ]
NoDir == [ exists |-> FALSE, files |-> << >> ]
Dir(fs) == [ exists |-> TRUE, files |-> fs ]
Pending == [ st |-> "pending" ]
Panicked == [ st |-> "panicked" ]

VARIABLES
    cmd,              \* the command family of the session: sharc, bar or sdat
    step,             \* 1: create or obtain A, 2: extract A, 3: repack into B, 4: end
    pc,               \* position inside the running command
    indir,            \* input folder: path -> contents
    outdir,           \* output folder of extract: NoDir, or path -> contents
    arch,             \* the archive files A and B
    archive_writer,   \* the builder of the running create
    endianess,        \* byte order of the running create
    archive_type,     \* Sdat::create: the archive_type argument
    files,            \* create: collected and sorted (path, name_hash)
    compressed_data,  \* create: per file, the worker's CompressedFile
    next,             \* index of the sequential loop
    archive,          \* extract: the parsed archive
    task,             \* extract: state of each decode task
    cursor,           \* extract: position of each read cursor (0 is `reader`)
    results,          \* extract: per entry, (file name, payload)
    result,           \* outcome of the last command
    stdout,           \* final report lines printed
    call              \* a single function call under test: input and return value

\* the variables of a session: all but the call under test
sessionVars == << cmd, step, pc, indir, outdir, arch, archive_writer, endianess,
                  archive_type, files, compressed_data, next, archive, task, cursor,
                  results, result, stdout >>

vars == << cmd, step, pc, indir, outdir, arch, archive_writer, endianess, archive_type, files,
           compressed_data, next, archive, task, cursor, results, result, stdout, call >>

createVars == << archive_writer, endianess, archive_type, files, compressed_data >>
extractVars == << archive, task, cursor, results >>

\* no function call is under test while a session runs
NoCall == [ fn |-> "none", kind |-> "none" ]

\* the outcome of a command: Ok, Err(message) or a panic with a message; a
\* message is its fixed text, the library error it formats, and the paths and
\* name hashes it formats
NoResult == [ kind |-> "None", text |-> "", err |-> "", paths |-> { }, hashes |-> { } ]
Ok == [ kind |-> "Ok", text |-> "", err |-> "", paths |-> { }, hashes |-> { } ]
Err(text, err, paths) ==
    [ kind |-> "Err", text |-> text, err |-> err, paths |-> paths, hashes |-> { } ]
Panic(text, err) ==
    [ kind |-> "Panic", text |-> text, err |-> err, paths |-> { }, hashes |-> { } ]

\* the folder and archive file the running create works on
InputDir == IF step = 1 THEN indir ELSE outdir.files
OutputFile == IF step = 1 THEN "A" ELSE "B"

InputDirs ==
    { [ p \in S |-> ContentOf(p) ] :
        S \in { T \in SUBSET CandidatePaths : Cardinality(T) <= MaxFiles } }

WithMarker(d, m) ==
    [ p \in DOMAIN d \cup { TimeName } |-> IF p = TimeName THEN m ELSE d[p] ]

Init ==
    /\ cmd \in Cmds
    /\ step = 1
    /\ pc = "idle"
    /\ \E d \in InputDirs :
          \/ indir = d
          \/ \E m \in TimeMarkers : indir = WithMarker(d, m)
    /\ outdir = NoDir
    /\ arch = [ f \in { "A", "B" } |-> NoFile ]
    /\ archive_writer = None
    /\ endianess = "Big"
    /\ archive_type = "Sharc"
    /\ files = << >>
    /\ compressed_data = << >>
    /\ next = 0
    /\ archive = None
    /\ task = << >>
    /\ cursor = << >>
    /\ results = << >>
    /\ result = NoResult
    /\ stdout = << >>
    /\ call = NoCall

\* what the environment does during create_output_file: whether creating the
\* file fails with an I/O error, and the answer to the overwrite question
Answers == { "yes", "no", "error" }
FsEnv == [ io_error : BOOLEAN, answer : Answers ]
NoTrouble == [ io_error |-> FALSE, answer |-> "yes" ]

\* variant: the file is created with File::create at once, without asking
create_output_file_truncating(f, env) ==
    IF env.io_error THEN [ ok |-> FALSE, text |-> "failed to create file", file |-> f ]
    ELSE [ ok |-> TRUE, text |-> "", file |-> EmptyFile ]

\* common::create_output_file on a path that holds f: create_new; if the
\* file exists, ask, and File::create (truncating) only on a yes
create_output_file(f, env) ==
    IF f = NoFile
    THEN IF env.io_error THEN [ ok |-> FALSE, text |-> "failed to create file", file |-> f ]
         ELSE [ ok |-> TRUE, text |-> "", file |-> EmptyFile ]
    ELSE IF env.answer = "error"
    THEN [ ok |-> FALSE, text |-> "failed to read user input", file |-> f ]
    ELSE IF env.answer = "yes"
    THEN IF env.io_error THEN [ ok |-> FALSE, text |-> "failed to create file", file |-> f ]
         ELSE [ ok |-> TRUE, text |-> "", file |-> EmptyFile ]
    ELSE [ ok |-> FALSE, text |-> "already exists and was not overwritten", file |-> f ]

\* fs::write / File::create + copy: (over)write one file of a folder
WriteFile(dir, path, data) ==
    [ p \in DOMAIN dir \cup { path } |-> IF p = path THEN data ELSE dir[p] ]

\* the process exits: its memory is gone, the file system and the terminal stay
Exit ==
    /\ archive_writer' = None
    /\ endianess' = "Big"
    /\ archive_type' = "Sharc"
    /\ files' = << >>
    /\ compressed_data' = << >>
    /\ next' = 0
    /\ archive' = None
    /\ task' = << >>
    /\ cursor' = << >>
    /\ results' = << >>

\* the command stops with a failure
Fail(r) ==
    /\ result' = r
    /\ pc' = "halt"
    /\ step' = 4
    /\ Exit


\* ------------------------------------------------------------- create
\* variant: the marker read in little-endian order
ReadTimeMarker_le(b, dir) ==
    IF TimeName \in DOMAIN dir /\ Len(dir[TimeName]) = 4
    THEN with_timestamp(b, from_le_bytes(dir[TimeName]))
    ELSE b

\* the `.time` file of the input folder, read as 4 big-endian bytes, sets
\* the builder's timestamp; a missing or malformed file leaves the default
ReadTimeMarker(b, dir) ==
    IF TimeName \in DOMAIN dir /\ Len(dir[TimeName]) = 4
    THEN with_timestamp(b, from_be_bytes(dir[TimeName]))
    ELSE b

\* what can go wrong while create reads its input folder: read_file_bytes
\* on an existing `.time`, or the directory walk of collect_input_files
InputTrouble(dir) ==
    { "none", "failed to read input folder" }
    \cup IF TimeName \in DOMAIN dir THEN { "failed to read .time file" } ELSE { }

\* the files of the folder in some walk order, sorted by signed name_hash
SortedInputs(dir, order) == sort_by_key(collect_input_files(dir, order))

\* variant: the iv field is not the iv the data was encrypted with
CompressedFile_zero_iv(b, f, data, iv) ==
    [ st |-> "done",
      name_hash |-> f.name_hash,
      rel_path |-> f.path,
      uncompressed_size |-> Len(data),
      compressed_data |-> compress_data(b, data, iv),
      iv |-> ZeroIV ]

\* the CompressedFile a worker returns for one input file
CompressedFile(b, f, data, iv) ==
    [ st |-> "done",
      name_hash |-> f.name_hash,
      rel_path |-> f.path,
      uncompressed_size |-> Len(data),
      compressed_data |-> compress_data(b, data, iv),
      iv |-> iv ]

\* Sharc::create up to the parallel map: builder, output file, `.time`,
\* collect and sort
SharcCreateBegin ==
    /\ cmd = "sharc" /\ pc = "idle" /\ step \in { 1, 3 }
    /\ \E env \in FsEnv, trouble \in InputTrouble(InputDir),
          order \in Orderings(DOMAIN InputDir) :
          LET out == create_output_file(arch[OutputFile], env)
          IN  IF ~ out.ok
              THEN Fail(Err(out.text, "", { })) /\ UNCHANGED arch
              ELSE IF trouble # "none"
              THEN /\ Fail(Err(trouble, "io error", { }))
                   /\ arch' = [ arch EXCEPT ![OutputFile] = out.file ]
              ELSE /\ files' = SortedInputs(InputDir, order)
                   /\ archive_writer' = ReadTimeMarker(
                         Builder_new("SHARC", SHARC_DEFAULT_KEY, SHARC_FILES_KEY, Clock),
                         InputDir)
                   /\ endianess' = "Big"
                   /\ archive_type' = "Sharc"
                   /\ arch' = [ arch EXCEPT ![OutputFile] = out.file ]
                   /\ compressed_data' = [ i \in DOMAIN files' |-> Pending ]
                   /\ pc' = "c_encode"
                   /\ next' = 0
                   /\ result' = NoResult
                   /\ UNCHANGED << step, extractVars >>
    /\ UNCHANGED << call, cmd, indir, outdir, stdout >>


\* Sdat::create up to the parallel map; archive_type is not used
SdatCreateBegin ==
    /\ cmd = "sdat" /\ pc = "idle" /\ step \in { 1, 3 }
    /\ \E env \in FsEnv, trouble \in InputTrouble(InputDir),
          order \in Orderings(DOMAIN InputDir),
          endian \in Endians, protect \in BOOLEAN, _archive_type \in ArchiveType :
          LET out == create_output_file(arch[OutputFile], env)
          IN  IF trouble = "failed to read .time file"
              THEN Fail(Err(trouble, "io error", { })) /\ UNCHANGED arch
              ELSE IF ~ out.ok
              THEN Fail(Err(out.text, "", { })) /\ UNCHANGED arch
              ELSE IF trouble # "none"
              THEN /\ Fail(Err(trouble, "io error", { }))
                   /\ arch' = [ arch EXCEPT ![OutputFile] = out.file ]
              ELSE /\ files' = SortedInputs(InputDir, order)
                   /\ endianess' = endian
                   /\ archive_type' = _archive_type
                   /\ archive_writer' = ReadTimeMarker(
                         with_flags(Builder_new("SHARC", SHARC_SDAT_KEY, SHARC_FILES_KEY,
                                                Clock), protect), InputDir)
                   /\ arch' = [ arch EXCEPT ![OutputFile] = out.file ]
                   /\ compressed_data' = [ i \in DOMAIN files' |-> Pending ]
                   /\ pc' = "c_encode"
                   /\ next' = 0
                   /\ result' = NoResult
                   /\ UNCHANGED << step, extractVars >>
    /\ UNCHANGED << call, cmd, indir, outdir, stdout >>


\* variant: the worker itself adds its entry to the builder
Encode_inserting(i) ==
    /\ pc = "c_encode" /\ i \in DOMAIN compressed_data
    /\ compressed_data[i] = Pending
    /\ \E iv \in IVs :
          LET cf == CompressedFile(archive_writer, files[i], InputDir[files[i].path], iv)
          IN  /\ compressed_data' = [ compressed_data EXCEPT ![i] = cf ]
              /\ archive_writer' = add_compressed_entry(archive_writer, cf.name_hash,
                     cf.compressed_data, as_u32(cf.uncompressed_size), cf.iv)
    /\ UNCHANGED << call, cmd, step, pc, indir, outdir, arch, endianess, archive_type,
                    files, next, extractVars, result, stdout >>

\* one worker of the parallel map: draw an iv, read the file, encode it,
\* and return the CompressedFile into slot i of the collected vector
Encode(i) ==
    /\ pc = "c_encode" /\ i \in DOMAIN compressed_data
    /\ compressed_data[i] = Pending
    /\ \E iv \in IVs :
          compressed_data' = [ compressed_data EXCEPT
              ![i] = CompressedFile(archive_writer, files[i], InputDir[files[i].path], iv) ]
    /\ UNCHANGED << call, cmd, step, pc, indir, outdir, arch, archive_writer, endianess, archive_type,
                    files, next, extractVars, result, stdout >>

\* a worker whose read_file_bytes or compress_data fails: .expect() panics
EncodePanic(i) ==
    /\ pc = "c_encode" /\ i \in DOMAIN compressed_data
    /\ compressed_data[i] = Pending
    /\ compressed_data' = [ compressed_data EXCEPT ![i] = Panicked ]
    /\ UNCHANGED << call, cmd, step, pc, indir, outdir, arch, archive_writer, endianess, archive_type,
                    files, next, extractVars, result, stdout >>

\* the panic of a worker propagates out of the parallel map
EncodeUnwind ==
    /\ pc = "c_encode"
    /\ \E i \in DOMAIN compressed_data : compressed_data[i] = Panicked
    /\ \E text \in { "failed to read input file", "failed to compress data" } :
          Fail(Panic(text, "error"))
    /\ UNCHANGED << call, cmd, indir, outdir, arch, stdout >>

\* collect() returns once every worker has returned
EncodeJoin ==
    /\ pc = "c_encode"
    /\ \A i \in DOMAIN compressed_data : compressed_data[i].st = "done"
    /\ pc' = "c_insert"
    /\ next' = 1
    /\ UNCHANGED << call, cmd, step, indir, outdir, arch, createVars, extractVars, result, stdout >>

\* the sequential loop over the collected vector: add_compressed_entry
InsertEntry ==
    /\ pc = "c_insert" /\ next <= Len(compressed_data)
    /\ LET cf == compressed_data[next]
       IN  archive_writer' = add_compressed_entry(archive_writer, cf.name_hash,
               cf.compressed_data, as_u32(cf.uncompressed_size), cf.iv)
    /\ next' = next + 1
    /\ UNCHANGED << call, cmd, step, pc, indir, outdir, arch, endianess, archive_type, files,
                    compressed_data, extractVars, result, stdout >>

\* Sharc::create: build into the output file, flush, report
SharcBuild ==
    /\ cmd = "sharc" /\ pc = "c_insert" /\ next > Len(compressed_data)
    /\ arch' = [ arch EXCEPT ![OutputFile] = ArchiveFile(FALSE, build(archive_writer, endianess)) ]
    /\ stdout' = Append(stdout, [ text |-> "Created SHARC archive", n |-> 0 ])
    /\ result' = Ok
    /\ pc' = "idle"
    /\ step' = step + 1
    /\ Exit
    /\ UNCHANGED << call, cmd, indir, outdir >>

\* variant: the archive is always written big-endian
SdatBuild_big ==
    /\ cmd = "sdat" /\ pc = "c_insert" /\ next > Len(compressed_data)
    /\ arch' = [ arch EXCEPT ![OutputFile] = ArchiveFile(TRUE, build(archive_writer, "Big")) ]
    /\ stdout' = Append(stdout, [ text |-> "Created SDAT archive", n |-> 0 ])
    /\ result' = Ok
    /\ pc' = "idle"
    /\ step' = step + 1
    /\ Exit
    /\ UNCHANGED << call, cmd, indir, outdir >>

\* Sdat::create: build into a buffer, wrap in SDAT, write the output file
SdatBuild ==
    /\ cmd = "sdat" /\ pc = "c_insert" /\ next > Len(compressed_data)
    /\ arch' = [ arch EXCEPT ![OutputFile] = ArchiveFile(TRUE, build(archive_writer, endianess)) ]
    /\ stdout' = Append(stdout, [ text |-> "Created SDAT archive", n |-> 0 ])
    /\ result' = Ok
    /\ pc' = "idle"
    /\ step' = step + 1
    /\ Exit
    /\ UNCHANGED << call, cmd, indir, outdir >>

\* Bar::create up to the loop: builder with the Protected flag, `.time`,
\* collect and sort
BarCreateBegin ==
    /\ cmd = "bar" /\ pc = "idle" /\ step \in { 1, 3 }
    /\ \E trouble \in InputTrouble(InputDir), order \in Orderings(DOMAIN InputDir) :
          IF trouble # "none"
          THEN Fail(Err(trouble, "io error", { }))
          ELSE /\ files' = SortedInputs(InputDir, order)
               /\ archive_writer' = ReadTimeMarker(
                     with_flags(Builder_new("BAR", BAR_DEFAULT_KEY, BAR_SIGNATURE_KEY, Clock),
                                TRUE), InputDir)
               /\ endianess' = "Little"
               /\ archive_type' = "Sharc"
               /\ compressed_data' = << >>
               /\ pc' = "b_add"
               /\ next' = 1
               /\ result' = NoResult
               /\ UNCHANGED << step, extractVars >>
    /\ UNCHANGED << call, cmd, indir, outdir, arch, stdout >>


\* an output file that holds the first part of an archive
PartialFile(bytes) == [ st |-> "partial", bytes |-> bytes ]

\* variant: every added entry is written through to the output file at once
BarAddEntry_streaming ==
    /\ pc = "b_add" /\ next <= Len(files)
    /\ \E iv \in IVs :
          archive_writer' = add_entry(archive_writer, files[next].name_hash,
                                      InputDir[files[next].path], iv)
    /\ arch' = [ arch EXCEPT ![OutputFile] = PartialFile(build(archive_writer', endianess)) ]
    /\ next' = next + 1
    /\ UNCHANGED << call, cmd, step, pc, indir, outdir, endianess, archive_type, files,
                    compressed_data, extractVars, result, stdout >>

\* one iteration of the loop of Bar::create: read the file, add_entry
BarAddEntry ==
    /\ pc = "b_add" /\ next <= Len(files)
    /\ \E iv \in IVs :
          archive_writer' = add_entry(archive_writer, files[next].name_hash,
                                      InputDir[files[next].path], iv)
    /\ next' = next + 1
    /\ UNCHANGED << call, cmd, step, pc, indir, outdir, arch, endianess, archive_type, files,
                    compressed_data, extractVars, result, stdout >>

\* read_file_bytes fails in the loop of Bar::create: Err with the path
BarAddFail ==
    /\ pc = "b_add" /\ next <= Len(files)
    /\ Fail(Err("failed to read file", "io error", { files[next].path }))
    /\ UNCHANGED << call, cmd, indir, outdir, arch, stdout >>

\* Bar::create: build into the buffer fails, the output file is not created
BarBuildFail ==
    /\ cmd = "bar" /\ pc = "b_add" /\ next > Len(files)
    /\ Fail(Err("failed to finalize archive", "EncodeError", { }))
    /\ UNCHANGED << call, cmd, indir, outdir, arch, stdout >>

\* Bar::create: build into a buffer, create the output file, copy, report
BarBuild ==
    /\ cmd = "bar" /\ pc = "b_add" /\ next > Len(files)
    /\ \E env \in FsEnv :
          LET out == create_output_file(arch[OutputFile], env)
          IN  IF ~ out.ok
              THEN Fail(Err(out.text, "", { })) /\ UNCHANGED << arch, stdout >>
              ELSE /\ arch' = [ arch EXCEPT ![OutputFile] =
                                   ArchiveFile(FALSE, build(archive_writer, endianess)) ]
                   /\ stdout' = Append(stdout, [ text |-> "Created BAR archive", n |-> 0 ])
                   /\ result' = Ok
                   /\ pc' = "idle"
                   /\ step' = step + 1
                   /\ Exit
    /\ UNCHANGED << call, cmd, indir, outdir >>


\* an archive made elsewhere is put at A instead of creating it here: any
\* byte order; under sdat, a wrapped SHARC or BAR archive
RECURSIVE AddAll(_, _, _, _)
AddAll(b, fs, dir, iv) ==
    IF fs = << >> THEN b
    ELSE AddAll(add_entry(b, Head(fs).name_hash, dir[Head(fs).path], iv), Tail(fs), dir, iv)

Provide ==
    /\ pc = "idle" /\ step = 1
    /\ \E version \in { "SHARC", "BAR" }, endian \in Endians, iv \in IVs,
          order \in Orderings(DOMAIN indir) :
          /\ cmd = "sharc" => version = "SHARC"
          /\ cmd = "bar" => version = "BAR"
          /\ LET key == IF version = "BAR" THEN BAR_DEFAULT_KEY
                        ELSE IF cmd = "sdat" THEN SHARC_SDAT_KEY ELSE SHARC_DEFAULT_KEY
                 key2 == IF version = "BAR" THEN BAR_SIGNATURE_KEY ELSE SHARC_FILES_KEY
                 b == AddAll(ReadTimeMarker(Builder_new(version, key, key2, Clock), indir),
                             collect_input_files(indir, order), indir, iv)
             IN  arch' = [ arch EXCEPT !["A"] = ArchiveFile(cmd = "sdat", build(b, endian)) ]
    /\ step' = 2
    /\ UNCHANGED << call, cmd, pc, indir, outdir, createVars, next, extractVars, result, stdout >>


\* the input archive A may be damaged before it is extracted: an unknown
\* magic, a version that is neither SHARC nor BAR, a wrong uncompressed_size,
\* an entry reaching past the end, or a file of fewer than 4 bytes
InputBytes == IF cmd = "sdat" THEN sdat_unwrap(arch["A"].bytes) ELSE arch["A"].bytes

\* a file cut off after its first two bytes
Truncated(b) ==
    [ b EXCEPT !.magic = SubSeq(@, 1, 2), !.version = "NONE", !.table = << >>,
               !.blob = << >> ]

Damaged(b) ==
    \/ b.magic = BadMagic
    \/ Len(b.magic) < 4
    \/ b.version \notin { "SHARC", "BAR" }
    \/ \E k \in DOMAIN b.table :
          \/ b.table[k].uncompressed_size = 0
          \/ b.table[k].compressed_size > Len(b.blob)

Corrupt ==
    /\ pc = "idle" /\ step = 2 /\ arch["A"].st = "file"
    /\ \E nb \in
          { [ InputBytes EXCEPT !.magic = BadMagic ],
            [ InputBytes EXCEPT !.version = "OTHER" ],
            Truncated(InputBytes) }
          \cup { [ InputBytes EXCEPT !.table[k].uncompressed_size = 0 ] :
                   k \in DOMAIN InputBytes.table }
          \cup { [ InputBytes EXCEPT !.table[k].compressed_size = Len(InputBytes.blob) + 1 ] :
                   k \in DOMAIN InputBytes.table } :
          /\ ~ Damaged(InputBytes)
          /\ arch' = [ arch EXCEPT !["A"] = ArchiveFile(cmd = "sdat", nb) ]
    /\ UNCHANGED << call, cmd, step, pc, indir, outdir, createVars, next, extractVars, result, stdout >>

\* ------------------------------------------------------------ extract
\* variant: the marker written in the archive's byte order
TimeMarkerBytes_archive_order(endian, t) == WriteI32(endian, t)

\* the 4 bytes extract writes to `.time` for header timestamp t
TimeMarkerBytes(endian, t) == to_be_bytes(t)

\* the file name an entry is extracted to
EntryFileName(name_hash) ==
    IF cmd = "bar" THEN AfsHash_to_string(name_hash) \o BinExt
    ELSE AfsHash_to_string(name_hash)

\* variant: every task reads through the one `reader`
CursorOf_shared(i) == 0

\* the cursor a decode task reads through: its own local_reader
CursorOf(i) == i

\* common::create_output_dir on a path that does not exist yet
create_output_dir(d) == IF d.exists THEN d ELSE Dir(<< >>)

\* the parallel decode of the parsed archive a starts
StartDecode(a) ==
    /\ archive' = a
    /\ task' = [ i \in DOMAIN a.entries |-> "todo" ]
    /\ cursor' = [ i \in 0..Len(a.entries) |-> 0 ]
    /\ results' = [ i \in DOMAIN a.entries |-> Pending ]
    /\ outdir' = create_output_dir(outdir)
    /\ pc' = "x_decode"
    /\ next' = 0
    /\ result' = NoResult
    /\ UNCHANGED << step, createVars >>

\* Sharc::extract: SharcArchive::read_{le,be}_args with SHARC_DEFAULT_KEY
open_sharc(data) ==
    Archive_read("SHARC", magic_to_endianess(data.magic), data, SHARC_DEFAULT_KEY)

\* Bar::extract: BarArchive::read_{le,be}_args with the BAR keys
open_bar(data) ==
    Archive_read("BAR", magic_to_endianess(data.magic), data, BAR_DEFAULT_KEY)

\* Sdat::extract: try SHARC with SHARC_SDAT_KEY first, then BAR
open_sdat_payload(data) ==
    LET sharc == Archive_read("SHARC", magic_to_endianess(data.magic), data, SHARC_SDAT_KEY)
    IN  IF sharc.ok THEN sharc ELSE open_bar(data)

\* Sharc::extract up to the parallel map: read, magic, parse, output folder
SharcExtractBegin ==
    /\ cmd = "sharc" /\ pc = "idle" /\ step = 2 /\ arch["A"].st = "file"
    /\ LET data == InputBytes
           endian == magic_to_endianess(data.magic)
           a == open_sharc(data)
       IN  IF Len(data.magic) < 4
           THEN Fail(Panic("range end index 4 out of range for slice", ""))
                /\ UNCHANGED outdir
           ELSE IF endian = "PANIC"
           THEN Fail(Panic("Invalid magic value", "")) /\ UNCHANGED outdir
           ELSE IF ~ a.ok
           THEN Fail(Err("failed to read SHARC archive", a.err, { })) /\ UNCHANGED outdir
           ELSE StartDecode(a)
    /\ UNCHANGED << call, cmd, indir, arch, stdout >>

\* Sdat::extract up to the parallel map: unwrap, magic, try SHARC, then BAR
SdatExtractBegin ==
    /\ cmd = "sdat" /\ pc = "idle" /\ step = 2 /\ arch["A"].st = "file"
    /\ LET data == InputBytes
           endian == magic_to_endianess(data.magic)
           a == open_sdat_payload(data)
       IN  IF Len(data.magic) < 4
           THEN Fail(Panic("range end index 4 out of range for slice", ""))
                /\ UNCHANGED outdir
           ELSE IF endian = "PANIC"
           THEN Fail(Panic("Invalid magic value", "")) /\ UNCHANGED outdir
           ELSE IF a.ok THEN StartDecode(a)
           ELSE Fail(Err("file does not contain a supported SHARC or BAR archive", "", { }))
                /\ UNCHANGED outdir
    /\ UNCHANGED << call, cmd, indir, arch, stdout >>

\* a decode task creates its cursor and entry_data seeks to the entry
TaskSeek(i) ==
    /\ pc = "x_decode" /\ i \in DOMAIN task /\ task[i] = "todo"
    /\ cursor' = [ cursor EXCEPT ![CursorOf(i)] = archive.entries[i].location ]
    /\ task' = [ task EXCEPT ![i] = "seeked" ]
    /\ UNCHANGED << call, cmd, step, pc, indir, outdir, arch, createVars, next, archive,
                    results, result, stdout >>

\* variant: results are pushed in completion order
TaskRead_push(i) ==
    /\ pc = "x_decode" /\ i \in DOMAIN task /\ task[i] = "seeked"
    /\ LET e == archive.entries[i]
           r == entry_data_read(archive, InputBytes, cursor[CursorOf(i)], e)
           slot == CHOOSE k \in DOMAIN results :
                      results[k] = Pending /\ \A j \in 1..(k - 1) : results[j] # Pending
       IN  /\ r.ok
           /\ results' = [ results EXCEPT ![slot] =
                  [ st |-> "done", name |-> EntryFileName(e.name_hash), data |-> r.data ] ]
           /\ cursor' = [ cursor EXCEPT ![CursorOf(i)] = @ + e.compressed_size ]
    /\ task' = [ task EXCEPT ![i] = "done" ]
    /\ UNCHANGED << call, cmd, step, pc, indir, outdir, arch, createVars, next, archive,
                    result, stdout >>

\* entry_data reads and decodes the entry; the task returns (name, payload)
TaskRead(i) ==
    /\ pc = "x_decode" /\ i \in DOMAIN task /\ task[i] = "seeked"
    /\ LET e == archive.entries[i]
           r == entry_data_read(archive, InputBytes, cursor[CursorOf(i)], e)
       IN  /\ r.ok
           /\ results' = [ results EXCEPT ![i] =
                  [ st |-> "done", name |-> EntryFileName(e.name_hash), data |-> r.data ] ]
           /\ cursor' = [ cursor EXCEPT ![CursorOf(i)] = @ + e.compressed_size ]
    /\ task' = [ task EXCEPT ![i] = "done" ]
    /\ UNCHANGED << call, cmd, step, pc, indir, outdir, arch, createVars, next, archive,
                    result, stdout >>

\* variant: a failed entry yields an empty payload instead of a panic
TaskReadFail_default(i) ==
    /\ pc = "x_decode" /\ i \in DOMAIN task /\ task[i] = "seeked"
    /\ ~ entry_data_read(archive, InputBytes, cursor[CursorOf(i)], archive.entries[i]).ok
    /\ results' = [ results EXCEPT ![i] =
           [ st |-> "done", name |-> EntryFileName(archive.entries[i].name_hash),
             data |-> << >> ] ]
    /\ task' = [ task EXCEPT ![i] = "done" ]
    /\ UNCHANGED << call, cmd, step, pc, indir, outdir, arch, createVars, next, archive,
                    cursor, result, stdout >>

\* entry_data fails: .expect("Failed to process entry") panics
TaskReadFail(i) ==
    /\ pc = "x_decode" /\ i \in DOMAIN task /\ task[i] = "seeked"
    /\ ~ entry_data_read(archive, InputBytes, cursor[CursorOf(i)], archive.entries[i]).ok
    /\ task' = [ task EXCEPT ![i] = "panicked" ]
    /\ UNCHANGED << call, cmd, step, pc, indir, outdir, arch, createVars, next, archive,
                    cursor, results, result, stdout >>

\* the panic of a decode task propagates out of the parallel map
DecodeUnwind ==
    /\ pc = "x_decode"
    /\ \E i \in DOMAIN task : task[i] = "panicked"
    /\ Fail(Panic("Failed to process entry", CodecError.err))
    /\ UNCHANGED << call, cmd, indir, outdir, arch, stdout >>

\* collect() returns once every decode task has returned
DecodeJoin ==
    /\ pc = "x_decode"
    /\ \A i \in DOMAIN task : task[i] = "done"
    /\ pc' = "x_write"
    /\ next' = 1
    /\ UNCHANGED << call, cmd, step, indir, outdir, arch, createVars, extractVars, result, stdout >>

\* the sequential loop writing one result to the output folder
WriteEntry ==
    /\ pc = "x_write" /\ next <= Len(results)
    /\ outdir' = Dir(WriteFile(outdir.files, results[next].name, results[next].data))
    /\ next' = next + 1
    /\ UNCHANGED << call, cmd, step, pc, indir, arch, createVars, extractVars, result, stdout >>

\* the end of extract: write `.time`, report the number of entries
FinishExtract ==
    /\ outdir' = Dir(WriteFile(outdir.files, TimeName,
                     TimeMarkerBytes(magic_to_endianess(InputBytes.magic),
                                     archive.archive_data.timestamp)))
    /\ stdout' = Append(stdout, [ text |-> "Extracted files", n |-> Len(archive.entries) ])
    /\ result' = Ok
    /\ pc' = "idle"
    /\ step' = 3
    /\ Exit

ExtractEnd ==
    /\ pc = "x_write" /\ next > Len(results)
    /\ FinishExtract
    /\ UNCHANGED << call, cmd, indir, arch >>

\* Bar::extract up to the loop: read, magic, output folder, parse
BarExtractBegin ==
    /\ cmd = "bar" /\ pc = "idle" /\ step = 2 /\ arch["A"].st = "file"
    /\ LET data == InputBytes
           endian == magic_to_endianess(data.magic)
           a == open_bar(data)
       IN  IF Len(data.magic) < 4
           THEN Fail(Err("File too small to be a valid archive", "", { }))
                /\ UNCHANGED outdir
           ELSE IF endian = "PANIC"
           THEN Fail(Panic("Invalid magic value", "")) /\ UNCHANGED outdir
           ELSE IF ~ a.ok
           THEN Fail(Err("failed to open BAR archive", a.err, { }))
                /\ outdir' = create_output_dir(outdir)
           ELSE /\ archive' = a
                /\ cursor' = [ i \in { 0 } |-> 0 ]
                /\ outdir' = create_output_dir(outdir)
                /\ pc' = "b_extract"
                /\ next' = 1
                /\ result' = NoResult
                /\ UNCHANGED << step, task, results, createVars >>
    /\ UNCHANGED << call, cmd, indir, arch, stdout >>

\* one iteration of the loop of Bar::extract: entry_data through the one
\* reader, then write `<name_hash>.bin`
BarExtractEntry ==
    /\ pc = "b_extract" /\ next <= Len(archive.entries)
    /\ LET e == archive.entries[next]
           r == entry_data(archive, InputBytes, e)
       IN  /\ r.ok
           /\ outdir' = Dir(WriteFile(outdir.files, EntryFileName(e.name_hash), r.data))
           /\ cursor' = [ cursor EXCEPT ![0] = e.location + e.compressed_size ]
    /\ next' = next + 1
    /\ UNCHANGED << call, cmd, step, pc, indir, arch, createVars, archive, task, results,
                    result, stdout >>

\* entry_data fails in the loop of Bar::extract: Err
BarExtractFail ==
    /\ pc = "b_extract" /\ next <= Len(archive.entries)
    /\ LET e == archive.entries[next]
           r == entry_data(archive, InputBytes, e)
       IN  /\ ~ r.ok
           /\ Fail(Err("failed to read entry data", r.err, { }))
    /\ UNCHANGED << call, cmd, indir, outdir, arch, stdout >>

BarExtractEnd ==
    /\ pc = "b_extract" /\ next > Len(archive.entries)
    /\ FinishExtract
    /\ UNCHANGED << call, cmd, indir, arch >>

\* ---------------------------------------------------------------- Next
Next ==
    \/ SharcCreateBegin
    \/ SdatCreateBegin
    \/ \E i \in 1..(MaxFiles + 1) : Encode(i)
    \/ \E i \in 1..(MaxFiles + 1) : EncodePanic(i)
    \/ EncodeUnwind
    \/ EncodeJoin
    \/ InsertEntry
    \/ SharcBuild
    \/ SdatBuild
    \/ BarCreateBegin
    \/ BarAddEntry
    \/ BarAddFail
    \/ BarBuildFail
    \/ BarBuild
    \/ Provide
    \/ Corrupt
    \/ SharcExtractBegin
    \/ SdatExtractBegin
    \/ \E i \in 1..(MaxFiles + 1) : TaskSeek(i)
    \/ \E i \in 1..(MaxFiles + 1) : TaskRead(i)
    \/ \E i \in 1..(MaxFiles + 1) : TaskReadFail(i)
    \/ DecodeUnwind
    \/ DecodeJoin
    \/ WriteEntry
    \/ ExtractEnd
    \/ BarExtractBegin
    \/ BarExtractEntry
    \/ BarExtractFail
    \/ BarExtractEnd

Spec == Init /\ [][Next]_vars


\* ------------------------------------------------------- single calls
\* One function of the program is called once on one input; no session runs.
\* path strings given to collect_input_files: a first part and a last part
PathPrefixes ==
    { << "0","0","0","0" >>, << "F","F","F","F" >>, << "f","f","f","f" >>,
      << "8","0","0","0" >>, << "7","F","F","F" >>, << "0","0","g","0" >>,
      << "a","B","\\","c" >>, << "A","b","/","C" >>, << "a","b","/","c" >> }

PathSuffixes ==
    { << "0","0","0","1" >>, << "F","F","F","F" >>, << "f","f","f","f" >>,
      << "0","0","0","0" >>, << "0","0","2","A" >>, << "0","0","2","a" >>,
      << "9","C" >>, << "0","0","0","0","1" >>,
      << "x",".","Y" >>, << "X",".","y" >> }

PathSamples == { a \o b : a \in PathPrefixes, b \in PathSuffixes }

\* a call that has not been made yet, on input x
Pending_call(kind, x) == [ fn |-> "none", kind |-> kind, arg |-> x, ret |-> None ]

\* no session: the file system is empty and no command runs
NoSession ==
    /\ cmd = "sharc"
    /\ step = 4
    /\ pc = "halt"
    /\ indir = << >>
    /\ outdir = NoDir
    /\ arch = [ f \in { "A", "B" } |-> NoFile ]
    /\ archive_writer = None
    /\ endianess = "Big"
    /\ archive_type = "Sharc"
    /\ files = << >>
    /\ compressed_data = << >>
    /\ next = 0
    /\ archive = None
    /\ task = << >>
    /\ cursor = << >>
    /\ results = << >>
    /\ result = NoResult
    /\ stdout = << >>

\* buffers given to the type matchers: 4 first bytes, a version word, a rest
BufferSamples ==
    { m \o v \o t :
        m \in { MagicLE, MagicBE, BadMagic, SEGMENT_MAGIC },
        v \in { << >>, << 2, 0 >>, << 2, 0, 0, 0 >>, << 0, 0, 0, 2 >>,
                << 1, 0, 0, 0 >>, << 0, 0, 0, 1 >>, << 9, 9, 9, 9 >> },
        t \in { << >>, << 7, 7, 7, 7 >> } }
    \cup { NPD \o [ i \in 1..30 |-> 0 ] \o SDATA }

\* what the output path can hold when create_output_file is called
FileSamples ==
    { NoFile, EmptyFile, ArchiveFile(FALSE, << 1, 2, 3 >>), PartialFile(<< 1 >>) }

\* ---------------------------------------------------------- crypt.rs
KnownFileType == << "Odc", "Xml", "SceneList", "Lua", "Bar", "Pem", "Hcdb" >>

\* KnownFileType::known_plaintext: the first 8 bytes of a file of the type
known_plaintext(t) ==
    IF t = "Odc" THEN << 239, 187, 191, 60, 63, 120, 109, 108 >>
    ELSE IF t = "Xml" THEN << 60, 63, 120, 109, 108, 32, 118, 101 >>
    ELSE IF t = "SceneList" THEN << 60, 83, 67, 69, 78, 69, 76, 73 >>
    ELSE IF t = "Lua" THEN << 76, 111, 97, 100, 76, 105, 98, 114 >>
    ELSE IF t = "Bar" THEN << 225, 23, 239, 173, 0, 0, 0, 1 >>
    ELSE IF t = "Pem" THEN << 45, 45, 45, 45, 45, 66, 69, 71 >>
    ELSE None

\* variant: the XOR of known plaintext and ciphertext returned as the IV
recover_iv_keystream(key, ciphertext, known) ==
    IF Len(ciphertext) < 8
    THEN [ ok |-> FALSE, iv |-> ZeroIV, err |-> "Ciphertext too short for IV recovery" ]
    ELSE [ ok |-> TRUE, iv |-> [ i \in 1..8 |-> Xor8(known[i], ciphertext[i]) ], err |-> "" ]

\* recover_iv: XOR the known plaintext against the first ciphertext block,
\* then ECB-decrypt the block
recover_iv(key, ciphertext, known) ==
    IF Len(ciphertext) < 8
    THEN [ ok |-> FALSE, iv |-> ZeroIV, err |-> "Ciphertext too short for IV recovery" ]
    ELSE LET ecb_iv == [ i \in 1..8 |-> Xor8(known[i], ciphertext[i]) ]
         IN  [ ok |-> TRUE, iv |-> BlowfishEcbDec(key, ecb_iv), err |-> "" ]

\* the encryption of encrypt_file with a given iv
CTR_encrypt(key, iv, data) == BlowfishPS3(key, iv, data)

\* keys, IVs and plaintexts for the IV recovery
KeySamples == { BLOWFISH_DEFAULT_KEY, 3 }
IVSamples ==
    IVs \cup { ZeroIV, [ i \in 1..8 |-> 255 ], << 0, 1, 2, 3, 4, 5, 254, 255 >> }
BodySamples == { << >>, << 1, 2, 3 >>, << 1, 2, 3, 4, 5, 6, 7, 8, 9 >> }
PlaintextSamples ==
    { known_plaintext(KnownFileType[k]) \o b : k \in 1..6, b \in BodySamples }
    \cup { << >>, << 60, 63, 120 >>, << 60, 63, 120, 109, 108, 32, 118 >>,
           << 0, 0, 0, 0, 0, 0, 0, 0, 0 >> }

\* recover_iv on the encryption of one plaintext
Call_recover_iv ==
    /\ call.fn = "none" /\ call.kind = "kpa"
    /\ call' = [ call EXCEPT
          !.fn = "recover_iv",
          !.ret = recover_iv(call.arg.key,
                             CTR_encrypt(call.arg.key, call.arg.iv, call.arg.plaintext),
                             call.arg.known) ]
    /\ UNCHANGED sessionVars

\* entropy::shannon_entropy differences in tenths of a bit per byte
ENTROPY_DROP_THRESHOLD == 10
DropSamples == { 9, 10 }

\* brute_force_hcdb_iv: Err on fewer than 16 bytes; otherwise the first
\* segment count whose candidate IV satisfies the file-size oracle, if any
brute_force_hcdb_iv(key, ciphertext, oracle_match) ==
    IF Len(ciphertext) < 16
    THEN [ ok |-> FALSE, err |-> "HCDB ciphertext too short (need at least 16 bytes)" ]
    ELSE IF oracle_match THEN [ ok |-> TRUE, err |-> "" ]
    ELSE [ ok |-> FALSE, err |-> "HCDB brute-force exhausted all segment counts" ]

\* the candidates of decrypt_file: the hinted type alone, or all in order
candidates(hint) == IF hint = "None" THEN KnownFileType ELSE << hint >>

\* an input file of decrypt_file: its length, the entropy drop each candidate
\* IV gives, whether the HCDB oracle matches, the hint, the outcome of fs::write
DecryptSamples ==
    [ len : { 7, 8, 16 },
      drop : [ { KnownFileType[k] : k \in 1..6 } -> DropSamples ],
      hcdb : BOOLEAN,
      hint : { "None" } \cup Range(KnownFileType),
      readable : { TRUE },
      write_ok : BOOLEAN ]
    \cup
    [ len : { 8 },
      drop : [ { KnownFileType[k] : k \in 1..6 } -> { 0 } ],
      hcdb : { FALSE },
      hint : { "None" },
      readable : { FALSE },
      write_ok : { TRUE } ]

\* decrypt_file up to the loop: read the input, pick the candidates
Decrypt_begin ==
    /\ call.fn = "none" /\ call.kind = "decrypt"
    /\ call' = [ call EXCEPT
          !.fn = "decrypt_file",
          !.ret = [ i |-> 1, tried |-> << >>, writes |-> << >>,
                    result |-> IF call.arg.readable THEN "running"
                               ELSE "Failed to read file for decryption" ] ]
    /\ UNCHANGED sessionVars

\* whether the candidate of type t passes: an IV is recovered, and the
\* entropy drop reaches the threshold or the HCDB oracle has matched
Verified(a, t) ==
    LET data == [ k \in 1..a.len |-> 0 ]
    IN  IF t = "Hcdb"
        THEN brute_force_hcdb_iv(BLOWFISH_DEFAULT_KEY, data, a.hcdb).ok
        ELSE /\ recover_iv(BLOWFISH_DEFAULT_KEY, data, known_plaintext(t)).ok
             /\ a.drop[t] >= ENTROPY_DROP_THRESHOLD

\* variant: the loop goes on after the output file was written
Decrypt_try_no_return ==
    /\ call.fn = "decrypt_file" /\ call.ret.result \in { "running", "Ok" }
    /\ call.ret.i <= Len(candidates(call.arg.hint))
    /\ LET t == candidates(call.arg.hint)[call.ret.i]
       IN  call' = [ call EXCEPT !.ret =
               IF Verified(call.arg, t)
               THEN [ @ EXCEPT !.i = @ + 1, !.tried = Append(@, t),
                               !.writes = Append(@, t), !.result = "Ok" ]
               ELSE [ @ EXCEPT !.i = @ + 1, !.tried = Append(@, t) ] ]
    /\ UNCHANGED sessionVars

\* one iteration of the loop of decrypt_file: recover the IV, decrypt,
\* verify; on success write the output file and return
Decrypt_try ==
    /\ call.fn = "decrypt_file" /\ call.ret.result = "running"
    /\ call.ret.i <= Len(candidates(call.arg.hint))
    /\ LET t == candidates(call.arg.hint)[call.ret.i]
       IN  call' = [ call EXCEPT !.ret =
               IF Verified(call.arg, t)
               THEN [ @ EXCEPT !.tried = Append(@, t), !.writes = Append(@, t),
                               !.result = IF call.arg.write_ok THEN "Ok"
                                          ELSE "Failed to write decrypted file" ]
               ELSE [ @ EXCEPT !.i = @ + 1, !.tried = Append(@, t) ] ]
    /\ UNCHANGED sessionVars

\* the loop of decrypt_file ends without a match: Err
Decrypt_end ==
    /\ call.fn = "decrypt_file" /\ call.ret.result = "running"
    /\ call.ret.i > Len(candidates(call.arg.hint))
    /\ call' = [ call EXCEPT !.ret.result = "Could not decrypt" ]
    /\ UNCHANGED sessionVars

\* `uncompressed_size as u32` on a 64-bit usize, given as its 8 bytes in
\* little-endian order: the low 32 bits are kept
usize_as_u32(len) == SubSeq(len, 1, 4)

\* plaintext lengths, as 8 little-endian bytes: 0, 5, 2^32 - 1, 2^32, 2^32 + 1
LengthSamples ==
    { << 0, 0, 0, 0, 0, 0, 0, 0 >>, << 5, 0, 0, 0, 0, 0, 0, 0 >>,
      << 255, 255, 255, 255, 0, 0, 0, 0 >>, << 0, 0, 0, 0, 1, 0, 0, 0 >>,
      << 1, 0, 0, 0, 1, 0, 0, 0 >> }

\* the uncompressed_size that create hands to add_compressed_entry for a
\* plaintext of the given length
Call_uncompressed_size ==
    /\ call.fn = "none" /\ call.kind = "len"
    /\ call' = [ call EXCEPT !.fn = "uncompressed_size", !.ret = usize_as_u32(call.arg) ]
    /\ UNCHANGED sessionVars

\* relative paths of the regular files of a folder tree
TreePaths ==
    { TimeName,
      << "a", "/" >> \o TimeName,
      << "a", "/", "b", "/" >> \o TimeName,
      << ".", "T", "I", "M", "E" >>,
      << "x" >> \o TimeName,
      TimeName \o << "/", "x" >>,
      << "a", "/", "x" >>,
      << "x" >> }

\* a folder tree and one order in which the walk visits its files
TreeSamples ==
    UNION { { [ dir |-> [ p \in S |-> << >> ], order |-> o ] : o \in Orderings(S) } :
              S \in { T \in SUBSET TreePaths : Cardinality(T) <= MaxTreeFiles } }

InitFn ==
    /\ NoSession
    /\ \/ \E p \in PathSamples : call = Pending_call("path", p)
       \/ \E b \in BufferSamples : call = Pending_call("buffer", b)
       \/ \E f \in FileSamples, env \in FsEnv :
             call = Pending_call("file", [ file |-> f, env |-> env ])
       \/ \E t \in TreeSamples : call = Pending_call("tree", t)
       \/ \E n \in LengthSamples : call = Pending_call("len", n)
       \/ \E d \in DecryptSamples : call = Pending_call("decrypt", d)
       \/ \E key \in KeySamples, iv \in IVSamples, pt \in PlaintextSamples, k \in 1..6 :
             call = Pending_call("kpa", [ key |-> key, iv |-> iv, plaintext |-> pt,
                                          known |-> known_plaintext(KnownFileType[k]) ])

\* collect_input_files on a single file: the name_hash of its file name
Call_NameHashOf ==
    /\ call.fn = "none" /\ call.kind = "path"
    /\ call' = [ call EXCEPT !.fn = "NameHashOf", !.ret = NameHashOf(call.arg) ]
    /\ UNCHANGED sessionVars

\* the normalisation of a path string before it is hashed
Call_clean_path ==
    /\ call.fn = "none" /\ call.kind = "path"
    /\ call' = [ call EXCEPT !.fn = "clean_path", !.ret = clean_path(call.arg) ]
    /\ UNCHANGED sessionVars

\* the matchers of magic.rs on one buffer
Call_get_matcher ==
    /\ call.fn = "none" /\ call.kind = "buffer"
    /\ call' = [ call EXCEPT !.fn = "get_matcher",
                             !.ret = [ mime |-> get_matcher(call.arg),
                                       sharc |-> sharc_matcher(call.arg),
                                       bar |-> bar_matcher(call.arg) ] ]
    /\ UNCHANGED sessionVars

\* create_output_file on one path
Call_create_output_file ==
    /\ call.fn = "none" /\ call.kind = "file"
    /\ call' = [ call EXCEPT !.fn = "create_output_file",
                             !.ret = create_output_file(call.arg.file, call.arg.env) ]
    /\ UNCHANGED sessionVars

\* collect_input_files on a folder
Call_collect_input_files ==
    /\ call.fn = "none" /\ call.kind = "tree"
    /\ call' = [ call EXCEPT !.fn = "collect_input_files",
                             !.ret = collect_input_files(call.arg.dir, call.arg.order) ]
    /\ UNCHANGED sessionVars

NextFn ==
    \/ Call_collect_input_files
    \/ Call_NameHashOf
    \/ Call_clean_path
    \/ Call_get_matcher
    \/ Call_create_output_file
    \/ Call_recover_iv
    \/ Call_uncompressed_size
    \/ Decrypt_begin
    \/ Decrypt_try
    \/ Decrypt_end

SpecFn == InitFn /\ [][NextFn]_vars


\* ------------------------------------- create over an existing output
\* The output path of create already holds a file, an archive made earlier.
OldFile ==
    ArchiveFile(FALSE,
        build(with_timestamp(Builder_new("BAR", BAR_DEFAULT_KEY, BAR_SIGNATURE_KEY, Clock),
                             7), "Little"))

InitCreate ==
    /\ cmd \in Cmds
    /\ step = 1
    /\ pc = "idle"
    /\ \E d \in InputDirs :
          \/ indir = d
          \/ \E m \in TimeMarkers : indir = WithMarker(d, m)
    /\ outdir = NoDir
    /\ arch = [ f \in { "A", "B" } |-> IF f = "A" THEN OldFile ELSE NoFile ]
    /\ archive_writer = None
    /\ endianess = "Big"
    /\ archive_type = "Sharc"
    /\ files = << >>
    /\ compressed_data = << >>
    /\ next = 0
    /\ archive = None
    /\ task = << >>
    /\ cursor = << >>
    /\ results = << >>
    /\ result = NoResult
    /\ stdout = << >>
    /\ call = NoCall

\* one run of create
NextCreate ==
    \/ SharcCreateBegin
    \/ SdatCreateBegin
    \/ \E i \in 1..(MaxFiles + 1) : Encode(i)
    \/ \E i \in 1..(MaxFiles + 1) : EncodePanic(i)
    \/ EncodeUnwind
    \/ EncodeJoin
    \/ InsertEntry
    \/ SharcBuild
    \/ SdatBuild
    \/ BarCreateBegin
    \/ BarAddEntry
    \/ BarAddFail
    \/ BarBuildFail
    \/ BarBuild

SpecCreate == InitCreate /\ [][NextCreate]_vars


\* ============================================================== claims
\* the regular files of a folder that become archive entries
Inputs(dir) == { p \in DOMAIN dir : file_name(p) # TimeName }

\* the bytes of archive file f, unwrapped from SDAT under the sdat command
BytesOf(f) == IF cmd = "sdat" THEN sdat_unwrap(arch[f].bytes) ELSE arch[f].bytes

HeaderEndian(b) == magic_to_endianess(b.magic)
HeaderTimestamp(b) == ReadI32(HeaderEndian(b), b.timestamp)
TableHashes(b) == [ i \in DOMAIN b.table |-> ReadI32(HeaderEndian(b), b.table[i].name_hash) ]

\* the input archive as the extract of the session's command opens it
OpenInput ==
    IF cmd = "sharc" THEN open_sharc(InputBytes)
    ELSE IF cmd = "bar" THEN open_bar(InputBytes)
    ELSE open_sdat_payload(InputBytes)

Ascending(hs) == \A i \in 1..(Len(hs) - 1) : hs[i] <= hs[i + 1]

InCreate == pc \in { "c_encode", "c_insert", "b_add" }
InDecode == pc \in { "x_decode", "x_write" }

HandedHashes == [ i \in DOMAIN archive_writer.entries |-> archive_writer.entries[i].name_hash ]

ExampleInputs ==
    [ i \in 1..5 |-> [ path |-> << >>, name_hash |-> << 5, -3, 0, -100, 42 >>[i] ] ]

\* C1: the name hashes that create hands to the builder, and the entry table
\* it writes, ascend under signed 32-bit comparison; hashes 5, -3, 0, -100, 42
\* are ordered -100, -3, 0, 5, 42.
C1_SignedAscendingOrder ==
    /\ InCreate =>
          /\ Ascending([ i \in DOMAIN files |-> files[i].name_hash ])
          /\ Ascending(HandedHashes)
    /\ \A f \in { "A", "B" } :
          (arch[f].st = "file" /\ HeaderEndian(BytesOf(f)) # "PANIC")
              => Ascending(TableHashes(BytesOf(f)))
    /\ LET sorted == sort_by_key(ExampleInputs)
       IN  [ i \in 1..5 |-> sorted[i].name_hash ] = << -100, -3, 0, 5, 42 >>

C1_Witness ==
    /\ pc = "c_insert" /\ Len(archive_writer.entries) = 2
    /\ HandedHashes[1] < 0 /\ HandedHashes[2] > 0

\* the input files of a folder have pairwise distinct name hashes
DistinctHashes(dir) ==
    \A p, q \in Inputs(dir) : p # q => NameHashOf(p) # NameHashOf(q)

\* C2: for inputs with distinct name hashes,
\* every entry of an archive made from the input folder decodes to the
\* plaintext of its input file; extract succeeds on it, writes one file per
\* input with that plaintext, and reports as many entries as there are inputs.
C2_RoundTrip ==
    /\ ((InDecode \/ pc = "b_extract") /\ ~ Damaged(InputBytes) /\ DistinctHashes(indir)) =>
          /\ Len(archive.entries) = Cardinality(Inputs(indir))
          /\ \A p \in Inputs(indir) :
                \E i \in DOMAIN archive.entries :
                    /\ archive.entries[i].name_hash = NameHashOf(p)
                    /\ entry_data(archive, InputBytes, archive.entries[i]) = Decoded(indir[p])
    /\ (step = 3 /\ pc = "idle" /\ DistinctHashes(indir)) =>
          /\ \A p \in Inputs(indir) :
                /\ EntryFileName(NameHashOf(p)) \in DOMAIN outdir.files
                /\ outdir.files[EntryFileName(NameHashOf(p))] = indir[p]
          /\ Cardinality(Inputs(outdir.files)) = Cardinality(Inputs(indir))
          /\ stdout[Len(stdout)].n = Cardinality(Inputs(indir))
    /\ result.text \in { "Failed to process entry", "failed to read entry data" }
          => Damaged(InputBytes)

C2_Witness ==
    /\ step = 3 /\ pc = "idle" /\ Len(stdout) = 2
    /\ stdout[1].text = "Created SHARC archive"
    /\ stdout[2] = [ text |-> "Extracted files", n |-> 2 ]

\* C3: while the workers encode, the builder's entry list stays empty; the
\* one sequential loop then inserts (name_hash, uncompressed_size) in the
\* order of the sorted file list, whatever order the workers finished in.
C3_SequentialInsertion ==
    /\ pc = "c_encode" => archive_writer.entries = << >>
    /\ pc = "c_insert" =>
          [ i \in DOMAIN archive_writer.entries |->
              << archive_writer.entries[i].name_hash,
                 archive_writer.entries[i].uncompressed_size >> ]
          = [ i \in 1..(next - 1) |->
              << files[i].name_hash, Len(InputDir[files[i].path]) >> ]

C3_Witness ==
    /\ pc = "c_insert" /\ next = 3 /\ Len(archive_writer.entries) = 2

\* the position task i's own cursor must hold
OwnCursorPos(i) ==
    IF task[i] = "todo" THEN 0
    ELSE IF task[i] = "done"
    THEN archive.entries[i].location + archive.entries[i].compressed_size
    ELSE archive.entries[i].location

\* C4: during parallel extraction every decode task reads through its own
\* cursor: each cursor holds exactly the position its one task gave it, the
\* `reader` used for parsing is untouched, and the archive bytes and parsed
\* table do not change.
C4_PrivateCursors ==
    /\ [](pc = "x_decode" =>
            /\ cursor[0] = 0
            /\ \A i \in DOMAIN task : cursor[i] = OwnCursorPos(i))
    /\ [][(InDecode /\ InDecode') => (arch' = arch /\ archive' = archive)]_vars

C4_Witness ==
    /\ pc = "x_decode" /\ Len(task) = 2
    /\ task[1] = "seeked" /\ task[2] = "seeked"
    /\ cursor[1] # cursor[2]

\* C5: the results of the parallel decode are, slot by slot in entry-table
\* order, what decoding each entry serially gives: a finished task holds the
\* serial payload under the entry's name, and a task fails only where the
\* serial decode fails.
C5_ParallelEqualsSerial ==
    InDecode =>
        \A i \in DOMAIN task :
            LET e == archive.entries[i]
                serial == entry_data(archive, InputBytes, e)
            IN  /\ task[i] = "done" =>
                      /\ serial.ok
                      /\ results[i] = [ st |-> "done", name |-> EntryFileName(e.name_hash),
                                        data |-> serial.data ]
                /\ task[i] = "panicked" => ~ serial.ok

C5_Witness ==
    /\ pc = "x_write" /\ Len(results) = 2
    /\ results[1].data # results[2].data

\* C6: an unknown magic makes extract return a recoverable error value; it
\* never panics.
C6_BadMagicIsRecoverable ==
    result.text = "Invalid magic value" => result.kind = "Err"

\* every entry of the input archive decodes
AllEntriesDecode ==
    /\ OpenInput.ok
    /\ \A i \in DOMAIN OpenInput.entries :
          entry_data(OpenInput, InputBytes, OpenInput.entries[i]).ok

ExtractReportedSuccess ==
    \/ \E k \in DOMAIN stdout : stdout[k].text = "Extracted files"
    \/ outdir.exists /\ TimeName \in DOMAIN outdir.files

\* C7: extract reports success or writes `.time` only if every entry decoded;
\* the write loop starts only when no entry was skipped.
C7_FailedEntryAbortsExtract ==
    /\ ExtractReportedSuccess => AllEntriesDecode
    /\ pc = "x_write" =>
          \A i \in DOMAIN results :
              /\ results[i].st = "done"
              /\ Decoded(results[i].data) = entry_data(archive, InputBytes, archive.entries[i])

C7_Witness ==
    /\ pc = "halt" /\ result.text \in { "Failed to process entry", "failed to read entry data" }
    /\ result.kind # "Ok"
    /\ ~ ExtractReportedSuccess
    /\ Len(InputBytes.table) = 2

\* C8: the failure that aborts a bulk create or extract names the name_hash
\* of the entry that failed to encode or decode.
C8_FailureNamesEntry ==
    [][ /\ (pc = "c_encode" /\ result'.text = "failed to compress data") =>
              \E i \in DOMAIN compressed_data :
                  compressed_data[i] = Panicked /\ files[i].name_hash \in result'.hashes
        /\ (pc = "x_decode" /\ result'.text = "Failed to process entry") =>
              \E i \in DOMAIN task :
                  task[i] = "panicked" /\ archive.entries[i].name_hash \in result'.hashes
        /\ (pc = "b_extract" /\ result'.text = "failed to read entry data") =>
              archive.entries[next].name_hash \in result'.hashes
      ]_vars

DigitOf(c) ==
    LET code == CharCode(c)
    IN  IF code <= 57 THEN code - 48 ELSE IF code <= 70 THEN code - 55 ELSE code - 87

IsHex8(p) ==
    /\ Len(p) = 8
    /\ \A i \in 1..8 : CharCode(p[i]) \in (48..57) \cup (65..70) \cup (97..102)

\* eight hex digits as a 32-bit pattern, most significant digit first, read
\* as a two's complement number
LiteralValue(p) ==
    LET d == [ i \in 1..8 |-> DigitOf(p[i]) ]
        low == (d[1] % 8) * 268435456 + d[2] * 16777216 + d[3] * 1048576 + d[4] * 65536
               + d[5] * 4096 + d[6] * 256 + d[7] * 16 + d[8]
    IN  IF d[1] >= 8 THEN (low - I32Max) - 1 ELSE low

UpperOf(c) ==
    IF c \in Range(LowerChars) THEN UpperChars[CHOOSE i \in 1..26 : LowerChars[i] = c] ELSE c

\* C11: a path string of exactly 8 hex digits gets the big-endian signed value
\* of its digits as name_hash, without hashing and whatever the case of the
\* digits ("00000001" is 1, "FFFFFFFF" is -1, "80000000" is -2147483648);
\* every other path string gets the hash of its normalised form.
C11_LiteralHash ==
    /\ call.fn = "NameHashOf" =>
          IF IsHex8(call.arg)
          THEN /\ call.ret = LiteralValue(call.arg)
               /\ call.ret = NameHashOf([ i \in 1..8 |-> UpperOf(call.arg[i]) ])
          ELSE call.ret = AfsHash_new_from_str(clean_path(call.arg))
    /\ NameHashOf(<< "0","0","0","0","0","0","0","1" >>) = 1
    /\ NameHashOf(<< "F","F","F","F","F","F","F","F" >>) = -1
    /\ NameHashOf(<< "8","0","0","0","0","0","0","0" >>) = I32Min

C11_Witness ==
    /\ call.fn = "NameHashOf"
    /\ call.arg = << "8","0","0","0","f","f","f","f" >>
    /\ call.ret = I32Min + 65535

\* two characters that differ at most in letter case or in `\` versus `/`
SameChar(a, b) ==
    \/ a = b
    \/ UpperOf(a) = UpperOf(b)
    \/ { a, b } = { "\\", "/" }

SamePath(p, q) == Len(p) = Len(q) /\ \A i \in DOMAIN p : SameChar(p[i], q[i])

\* C12: the normalised form of a path has no upper-case letter and no `\`,
\* differs from the path only in letter case and separators, and is its own
\* normal form; two non-literal paths that differ only in letter case or in
\* `\` versus `/` get the same name_hash.
C12_Normalisation ==
    /\ call.fn = "clean_path" =>
          /\ Len(call.ret) = Len(call.arg)
          /\ \A i \in DOMAIN call.ret :
                /\ call.ret[i] # "\\"
                /\ call.ret[i] \notin Range(UpperChars)
                /\ SameChar(call.ret[i], call.arg[i])
          /\ clean_path(call.ret) = call.ret
    /\ (call.fn = "NameHashOf" /\ ~ IsHex8(call.arg)) =>
          \A q \in PathSamples :
              (~ IsHex8(q) /\ SamePath(call.arg, q)) => NameHashOf(q) = call.ret

C12_Witness ==
    /\ call.fn = "clean_path"
    /\ call.arg = << "a","B","\\","c","X",".","y" >>
    /\ call.ret = << "a","b","/","c","x",".","y" >>

\* C13: no archive holds two entries with the same 8-byte IV, and no builder
\* is handed two entries with the same IV.
C13_NoIVCollision ==
    /\ \A f \in { "A", "B" } :
          arch[f].st = "file" =>
              \A i, j \in DOMAIN BytesOf(f).table :
                  i # j => BytesOf(f).table[i].iv # BytesOf(f).table[j].iv
    /\ InCreate =>
          \A i, j \in DOMAIN archive_writer.entries :
              i # j => archive_writer.entries[i].iv # archive_writer.entries[j].iv

\* the running create failed on reading or encoding an entry
EntryFailure(r) ==
    /\ r.kind \in { "Err", "Panic" }
    /\ r.text \in { "failed to read input file", "failed to compress data",
                    "failed to read file", "failed to finalize archive" }

\* C14: while create reads and encodes its entries the output file holds no
\* archive byte, and when reading or encoding an entry fails create ends in
\* failure with the output file still absent or empty.
C14_NoPartialOutput ==
    /\ [](InCreate => arch[OutputFile].st \in { "absent", "empty" })
    /\ [][EntryFailure(result') =>
            /\ InCreate
            /\ pc' = "halt"
            /\ arch'[OutputFile].st \in { "absent", "empty" }]_vars

C14_Witness ==
    /\ pc = "halt"
    /\ result = Panic("failed to compress data", "error")
    /\ arch = [ f \in { "A", "B" } |-> IF f = "A" THEN EmptyFile ELSE NoFile ]

\* C15: an archive that create reports as created has no two entry records
\* with the same name_hash: input files whose name hashes coincide are
\* reported instead.
C15_DuplicatesReported ==
    [][(InCreate /\ result'.kind = "Ok") =>
          LET b == IF cmd = "sdat" THEN sdat_unwrap(arch'[OutputFile].bytes)
                   ELSE arch'[OutputFile].bytes
          IN  \A i, j \in DOMAIN b.table :
                  i # j => b.table[i].name_hash # b.table[j].name_hash]_vars

\* C16: Sdat::extract gives the result "file does not contain a supported
\* SHARC or BAR archive" only for a payload that is neither a SHARC nor a BAR
\* archive; a damaged payload of a recognised format gets another result.
C16_DetectionVsIntegrity ==
    (cmd = "sdat" /\ result.text = "file does not contain a supported SHARC or BAR archive")
        => InputBytes.version \notin { "SHARC", "BAR" }

\* C17: the archive that Sdat::create wraps is of the type its archive_type
\* argument selects: SHARC for Sharc, BAR for Bar.
C17_ArchiveTypeSelectsInner ==
    [][(cmd = "sdat" /\ InCreate /\ result'.kind = "Ok") =>
          sdat_unwrap(arch'[OutputFile].bytes).version
              = (IF archive_type = "Bar" THEN "BAR" ELSE "SHARC")]_vars

\* the builder's archive written in byte order `endian`, and read back by
\* Sdat::extract with the byte order it detects from the magic
BuiltAs(endian) == build(archive_writer, endian)
ReadBack(endian) == open_sdat_payload(BuiltAs(endian))

\* C18: the entries and timestamp Sdat::create has collected read back the
\* same from the little-endian and from the big-endian archive, value by value
\* (name hashes, order, sizes, IVs, timestamp, decoded payloads), although the
\* two archives differ as bytes; the archive Sdat::create writes has the byte
\* order that was requested.
C18_EndianSymmetry ==
    /\ []((cmd = "sdat" /\ pc = "c_insert") =>
            LET le == ReadBack("Little")
                be == ReadBack("Big")
            IN  /\ le.ok /\ be.ok
                /\ le.entries = be.entries
                /\ Len(le.entries) = Len(archive_writer.entries)
                /\ le.archive_data = be.archive_data
                /\ le.archive_data.timestamp = archive_writer.timestamp
                /\ \A i \in DOMAIN le.entries :
                      entry_data(le, BuiltAs("Little"), le.entries[i])
                          = entry_data(be, BuiltAs("Big"), be.entries[i])
                /\ HeaderEndian(BuiltAs("Little")) = "Little"
                /\ HeaderEndian(BuiltAs("Big")) = "Big"
                /\ BuiltAs("Little").timestamp # BuiltAs("Big").timestamp)
    /\ [][(cmd = "sdat" /\ InCreate /\ result'.kind = "Ok") =>
            HeaderEndian(sdat_unwrap(arch'[OutputFile].bytes)) = endianess]_vars

C18_Witness ==
    /\ cmd = "sdat" /\ step = 3 /\ pc = "idle"
    /\ Len(stdout) = 2
    /\ stdout[1].text = "Created SDAT archive"
    /\ stdout[2] = [ text |-> "Extracted files", n |-> 2 ]
    /\ HeaderEndian(BytesOf("A")) = "Little"
    /\ HeaderTimestamp(BytesOf("A")) = 16909060

\* the version a buffer of at least 8 bytes with an archive magic carries
VersionOf(buf) ==
    IF SubSeq(buf, 1, 4) = MagicLE THEN buf[7] + buf[8] * 256 ELSE buf[5] * 256 + buf[6]

HasArchiveHeader(buf) ==
    Len(buf) >= 8 /\ SubSeq(buf, 1, 4) \in { MagicLE, MagicBE }

\* C19: on a buffer of at least 8 bytes that starts with an archive magic,
\* sharc_matcher is true exactly for version SHARC and bar_matcher exactly for
\* version BAR, and get_matcher names it hdk-sharc, hdk-bar, or hdk-archive
\* when the version is neither.
C19_MatchersClassify ==
    (call.fn = "get_matcher" /\ HasArchiveHeader(call.arg)) =>
        /\ call.ret.sharc = (VersionOf(call.arg) = VersionSHARC)
        /\ call.ret.bar = (VersionOf(call.arg) = VersionBAR)
        /\ call.ret.mime = (IF VersionOf(call.arg) = VersionSHARC THEN "hdk-sharc"
                            ELSE IF VersionOf(call.arg) = VersionBAR THEN "hdk-bar"
                            ELSE "hdk-archive")

\* C20: create_output_file succeeds exactly when no I/O error occurs and the
\* path was free or the user said yes; it fails when the user declines; a file
\* that exists is left as it is unless the user said yes, and after a failure.
C20_OverwriteOnlyOnConfirm ==
    call.fn = "create_output_file" =>
        LET f == call.arg.file
            env == call.arg.env
            r == call.ret
        IN  /\ r.ok = (~ env.io_error /\ (f = NoFile \/ env.answer = "yes"))
            /\ (f # NoFile /\ env.answer = "no") => ~ r.ok
            /\ (f # NoFile /\ env.answer # "yes") => r.file = f
            /\ ~ r.ok => r.file = f
            /\ r.ok => r.file = EmptyFile

C20_Witness ==
    /\ call.fn = "create_output_file"
    /\ call.arg.file = ArchiveFile(FALSE, << 1, 2, 3 >>)
    /\ call.arg.env = [ io_error |-> FALSE, answer |-> "no" ]
    /\ call.ret.ok = FALSE
    /\ call.ret.file = ArchiveFile(FALSE, << 1, 2, 3 >>)


\* C21: an input file of fewer than 4 bytes makes extract return an Err
\* result; it never panics while reading the magic.
C21_ShortInputIsErr ==
    ( /\ step = 4 /\ pc = "halt"
      /\ arch["A"].st = "file"
      /\ Len(InputBytes.magic) < 4 )
    => result.kind = "Err"


\* C22: when create fails, a file that was at the output path before still
\* has its original contents.
C22_FailedCreateKeepsOutput ==
    ( pc = "halt" /\ result.kind \in { "Err", "Panic" } ) => arch["A"] = OldFile

\* C23: when the input cannot be opened as an archive, extract has not
\* created the output folder.
C23_FailedOpenLeavesNoFolder ==
    ( /\ pc = "halt"
      /\ result.text \in { "failed to read SHARC archive",
                           "failed to open BAR archive",
                           "file does not contain a supported SHARC or BAR archive" } )
    => ~ outdir.exists

\* the entry files extract has written so far
EntryFilesWritten == { p \in DOMAIN outdir.files : p # TimeName }

\* C24: extraction is all-or-nothing: an entry file is written only after
\* every entry has been decoded, so an extract that stops at an entry that
\* fails to decode has written no entry file.
C24_DecodeAllBeforeWrite ==
    /\ ( /\ pc = "halt"
         /\ result.text \in { "Failed to process entry", "failed to read entry data" } )
       => EntryFilesWritten = { }
    /\ ( step = 2 /\ EntryFilesWritten # { } ) => AllEntriesDecode

\* C25: after a successful extract of an archive with N table entries the
\* output folder holds exactly N entry files, each entry's payload under that
\* entry's file name, and the reported count is the number of files written.
C25_OneFilePerEntry ==
    ( step = 3 /\ pc = "idle" /\ result = Ok ) =>
        /\ Cardinality(EntryFilesWritten) = Len(OpenInput.entries)
        /\ stdout[Len(stdout)].n = Cardinality(EntryFilesWritten)
        /\ \A i \in DOMAIN OpenInput.entries :
              LET e == OpenInput.entries[i]
              IN  /\ EntryFileName(e.name_hash) \in EntryFilesWritten
                  /\ Decoded(outdir.files[EntryFileName(e.name_hash)])
                        = entry_data(OpenInput, InputBytes, e)

\* the table of archive b has no two entries with the same name_hash
DistinctTable(b) ==
    \A i, j \in DOMAIN b.table : i # j => b.table[i].name_hash # b.table[j].name_hash

\* C26: the file name extract writes for an entry is mapped back by
\* collect_input_files to the entry's name_hash, and the archive repacked from
\* the extracted folder has the same name hashes in the same order.
C26_IdentitySurvivesRepack ==
    /\ ( arch["A"].st = "file" /\ OpenInput.ok ) =>
          \A i \in DOMAIN OpenInput.entries :
              NameHashOf(EntryFileName(OpenInput.entries[i].name_hash))
                  = OpenInput.entries[i].name_hash
    /\ ( step = 4 /\ pc = "idle" /\ result = Ok /\ DistinctTable(BytesOf("A")) ) =>
          TableHashes(BytesOf("B")) = TableHashes(BytesOf("A"))

\* a path whose last component is `.time`
IsTimeMarker(p) ==
    /\ Len(p) >= 5
    /\ SubSeq(p, Len(p) - 4, Len(p)) = TimeName
    /\ Len(p) > 5 => p[Len(p) - 5] = "/"

\* C27: on a folder, collect_input_files returns no file named `.time`,
\* whatever its depth, and every other regular file of the folder exactly once.
C27_TimeMarkerNeverCollected ==
    call.fn = "collect_input_files" =>
        LET dir == call.arg.dir
            ret == call.ret
        IN  /\ \A i \in DOMAIN ret :
                  ret[i].path \in DOMAIN dir /\ ~ IsTimeMarker(ret[i].path)
            /\ \A p \in DOMAIN dir :
                  ~ IsTimeMarker(p) =>
                      Cardinality({ i \in DOMAIN ret : ret[i].path = p }) = 1

C27_Witness ==
    /\ call.fn = "collect_input_files"
    /\ << "a", "/", "b", "/" >> \o TimeName \in DOMAIN call.arg.dir
    /\ TimeName \in DOMAIN call.arg.dir
    /\ Len(call.ret) = 1
    /\ call.ret[1].path = << ".", "T", "I", "M", "E" >>

\* C28: recover_iv on the CTR encryption of a plaintext of at least 8 bytes
\* that starts with the known plaintext returns the IV of the encryption, for
\* every key and IV; on a ciphertext of fewer than 8 bytes it returns Err.
C28_IVRecoveryExact ==
    call.fn = "recover_iv" =>
        LET a == call.arg
            ct == CTR_encrypt(a.key, a.iv, a.plaintext)
        IN  /\ ( Len(a.plaintext) >= 8 /\ SubSeq(a.plaintext, 1, 8) = a.known ) =>
                  call.ret.ok /\ call.ret.iv = a.iv
            /\ Len(ct) < 8 => ~ call.ret.ok

C28_Witness ==
    /\ call.fn = "recover_iv"
    /\ Len(call.arg.plaintext) > 8
    /\ SubSeq(call.arg.plaintext, 1, 8) = call.arg.known
    /\ call.arg.iv = << 0, 1, 2, 3, 4, 5, 254, 255 >>
    /\ call.ret.ok /\ call.ret.iv = call.arg.iv

\* the fixed order of the file types
CandidateOrder(hint) ==
    IF hint = "None"
    THEN << "Odc", "Xml", "SceneList", "Lua", "Bar", "Pem", "Hcdb" >>
    ELSE << hint >>

\* the candidate of type t passes verification on input a
Passes(a, t) ==
    IF t = "Hcdb" THEN a.len >= 16 /\ a.hcdb
    ELSE a.len >= 8 /\ a.drop[t] >= 10

\* C29: decrypt_file tries the file types in their fixed order, only the
\* hinted one under a hint; it writes the output once, for the first
\* candidate that passes verification, and stops; if none passes it returns
\* Err and has not written the output.
C29_FirstVerifiedCandidateWins ==
    ( call.fn = "decrypt_file" /\ call.arg.readable ) =>
        LET a == call.arg
            r == call.ret
            cs == CandidateOrder(a.hint)
            passing == { k \in 1..Len(cs) : Passes(a, cs[k]) }
        IN  /\ Len(r.tried) <= Len(cs)
            /\ r.tried = SubSeq(cs, 1, Len(r.tried))
            /\ Len(r.writes) <= 1
            /\ r.result = "running" => r.writes = << >>
            /\ r.result # "running" =>
                  IF passing = { }
                  THEN r.result = "Could not decrypt" /\ r.writes = << >> /\ r.tried = cs
                  ELSE LET first == CHOOSE k \in passing : \A j \in passing : k <= j
                       IN  /\ r.writes = << cs[first] >>
                           /\ r.tried = SubSeq(cs, 1, first)
                           /\ r.result = IF a.write_ok THEN "Ok"
                                         ELSE "Failed to write decrypted file"

C29_Witness ==
    /\ call.fn = "decrypt_file"
    /\ call.arg.hint = "None"
    /\ call.ret.result = "Ok"
    /\ call.ret.tried = << "Odc", "Xml", "SceneList" >>
    /\ call.ret.writes = << "SceneList" >>
    /\ Passes(call.arg, "Pem")

\* C30: the uncompressed_size recorded for an entry is the length of its
\* plaintext, also for lengths of 2^32 bytes and more: the 32-bit field,
\* extended with zeros to 64 bits, is the length.
C30_SizeFieldIsLength ==
    call.fn = "uncompressed_size" => call.ret \o << 0, 0, 0, 0 >> = call.arg
====
